---- MODULE Spec2Model ----
(***************************************************************************)
(* Model of eda_app_downloadable.py, a Streamlit script.  Every user       *)
(* interaction (uploading a file, removing it, changing a selectbox)       *)
(* re-runs the whole script top to bottom; st.session_state.df is the only *)
(* value the script itself carries from one run to the next.  One action   *)
(* of the model is one complete script run.                                *)
(*                                                                         *)
(* Cell values are integers; NaN stands for a missing cell.  Column labels *)
(* are strings, as pd.read_csv produces them; the empty string stands for  *)
(* the None a selectbox returns over an empty option list (both are falsy  *)
(* in the script's "if selected_col:" tests).  Every upload that loads has *)
(* at least one column.                                                    *)
(***************************************************************************)
EXTENDS Integers, Sequences, FiniteSets, TLC

\* ------------------------------------------------------------------ bounds
\* small tables have 0..MaxRows rows
MaxRows == 3
\* high-cardinality columns have CardinalityLimit+1 .. CardinalityLimit+MaxExtra categories
MaxExtra == 2

\* ------------------------------------------------------- program constants
\* "if unique_count > 30"
CardinalityLimit == 30
\* "value_counts().nlargest(30)"
TopK == 30

NaN == -1
None == [none |-> TRUE]
NoSelection == ""

Min(a, b) == IF a < b THEN a ELSE b

\* ---------------------------------------------------------------- pandas
\* A DataFrame is [cols |-> sequence of [name, dtype, values], nrows |-> n].
Columns(df) == [i \in 1..Len(df.cols) |-> df.cols[i].name]

ColumnOf(df, name) ==
    df.cols[CHOOSE i \in 1..Len(df.cols) : df.cols[i].name = name]

is_numeric_or_datetime_dtype(col) ==
    col.dtype \in {"int64", "float64", "bool", "datetime64[ns]"}

\* pd.api.types.is_numeric_dtype: integers, floats and booleans
is_numeric_dtype(col) == col.dtype \in {"int64", "float64", "bool"}

\* df.select_dtypes(include=np.number).columns.tolist(): booleans excluded
select_dtypes_number(df) ==
    LET num == SelectSeq(df.cols, LAMBDA c : c.dtype \in {"int64", "float64"})
    IN  [i \in 1..Len(num) |-> num[i].name]

Count(values, v) == Cardinality({i \in 1..Len(values) : values[i] = v})

\* Series.nunique(): distinct non-null values
nunique(values) == Cardinality({values[i] : i \in 1..Len(values)} \ {NaN})

RECURSIVE SetToSeq(_)
SetToSeq(S) ==
    IF S = {} THEN <<>>
    ELSE LET m == CHOOSE x \in S : \A y \in S : x <= y
         IN  <<m>> \o SetToSeq(S \ {m})

\* distinct non-null values in order of first appearance
Uniques(values) ==
    LET first == {i \in 1..Len(values) :
                     /\ values[i] # NaN
                     /\ \A j \in 1..(i-1) : values[j] # values[i]}
        idx == SetToSeq(first)
    IN  [k \in 1..Len(idx) |-> values[idx[k]]]

\* insert e behind every entry whose count is >= its own (stable, descending)
InsertDesc(sorted, e) ==
    LET ahead == Cardinality({i \in 1..Len(sorted) : sorted[i][2] >= e[2]})
    IN  SubSeq(sorted, 1, ahead) \o <<e>> \o SubSeq(sorted, ahead + 1, Len(sorted))

RECURSIVE SortDesc(_)
SortDesc(s) ==
    IF s = <<>> THEN <<>>
    ELSE InsertDesc(SortDesc(SubSeq(s, 1, Len(s) - 1)), s[Len(s)])

\* Series.value_counts(): <<value, count>> pairs, nulls dropped, count descending
value_counts(values) ==
    LET u == Uniques(values)
    IN  SortDesc([k \in 1..Len(u) |-> <<u[k], Count(values, u[k])>>])

nsmallest(vc, n) ==
    LET s == SortDesc(vc)
    IN  SubSeq(s, Len(s) - Min(n, Len(s)) + 1, Len(s))

\* Series.nlargest(n): the n largest counts, descending, first kept on ties
nlargest(vc, n) ==
    LET s == SortDesc(vc)
    IN  SubSeq(s, 1, Min(n, Len(s)))

\* --------------------------------------------------------------- loaders
\* dtype inference of the loaders: a frame without rows has object columns,
\* read_csv leaves dates as text, read_excel yields datetime64 columns
InferDtype(kind, cells, format) ==
    IF Len(cells) = 0 THEN "object"
    ELSE CASE kind = "number" ->
                 IF \E i \in 1..Len(cells) : cells[i] = NaN THEN "float64" ELSE "int64"
           [] kind = "bool" -> "bool"
           [] kind = "date" -> IF format = "xlsx" THEN "datetime64[ns]" ELSE "object"
           [] OTHER -> "object"

Parse(file) ==
    [cols  |-> [i \in 1..Len(file.sheet) |->
                   [name   |-> file.sheet[i].name,
                    dtype  |-> InferDtype(file.sheet[i].kind, file.sheet[i].cells, file.format),
                    values |-> file.sheet[i].cells]],
     nrows |-> IF file.sheet = <<>> THEN 0 ELSE Len(file.sheet[1].cells)]

\* pd.read_csv: raises on bytes that are not CSV and on a file without columns
read_csv(file) ==
    IF file.format = "csv" /\ file.sheet # <<>>
    THEN [raised |-> FALSE, df |-> Parse(file)]
    ELSE [raised |-> TRUE, df |-> None]

\* pd.read_excel: raises on bytes that are not a workbook
read_excel(file) ==
    IF file.format = "xlsx"
    THEN [raised |-> FALSE, df |-> Parse(file)]
    ELSE [raised |-> TRUE, df |-> None]

\* uploaded_file.name.endswith('.csv') selects the loader
LoadFile(file) ==
    IF file.suffix = ".csv" THEN read_csv(file) ELSE read_excel(file)

\* ------------------------------------------------------------ the uploads
Column(name, kind, cells) == [name |-> name, kind |-> kind, cells |-> cells]

\* the table of the specification's scenario: age 20,30,40 and city A,B,A
ScenarioSheet ==
    << Column("age", "number", <<20, 30, 40>>),
       Column("city", "text", <<1, 2, 1>>) >>

\* booleans, two numeric columns (one with a gap), a text column with gaps
\* and ties, and a date column that is not in time order
WideSheet(n) ==
    << Column("flag", "bool", [i \in 1..n |-> i % 2]),
       Column("age", "number", [i \in 1..n |-> 20 + 10 * i]),
       Column("income", "number", [i \in 1..n |-> IF i = 2 THEN NaN ELSE 7 * i]),
       Column("city", "text", [i \in 1..n |-> IF i % 3 = 0 THEN NaN ELSE 1 + (i % 2)]),
       Column("date", "date", [i \in 1..n |-> 100 - i]) >>

\* no numeric column at all
TextSheet ==
    << Column("city", "text", [i \in 1..MaxRows |-> 1 + (i % 2)]),
       Column("name", "text", [i \in 1..MaxRows |-> i]) >>

\* a single numeric column
SingleSheet ==
    << Column("age", "number", [i \in 1..MaxRows |-> 10 * i]) >>

\* "id" has k categories: 1..k once each, then k twice more and k-1 once
\* more, then a gap; "date" is different in every row
CardSheet(k) ==
    << Column("id", "text",
              [i \in 1..(k + 4) |-> IF i <= k THEN i
                                      ELSE IF i = k + 2 THEN k - 1
                                      ELSE IF i = k + 4 THEN NaN ELSE k]),
       Column("age", "number", [i \in 1..(k + 4) |-> i]),
       Column("date", "date", [i \in 1..(k + 4) |-> 1000 - i]) >>

File(stem, suffix, format, sheet) ==
    [stem |-> stem, suffix |-> suffix, format |-> format, sheet |-> sheet]

GoodFiles ==
    {File("scenario", ".csv", "csv", ScenarioSheet),
     File("text", ".csv", "csv", TextSheet),
     File("single", ".csv", "csv", SingleSheet)}
    \cup {File("wide", ".csv", "csv", WideSheet(n)) : n \in 0..MaxRows}
    \cup {File("wide", ".xlsx", "xlsx", WideSheet(n)) : n \in 0..MaxRows}
    \cup {File("card", ".xlsx", "xlsx", CardSheet(k)) :
             k \in CardinalityLimit..(CardinalityLimit + MaxExtra)}

\* a file of bytes no loader reads, a CSV file without a header line, and
\* CSV bytes under a name that sends them to read_excel
BadFiles ==
    {File("garbage", ".csv", "garbage", <<>>),
     File("blank", ".csv", "csv", <<>>),
     File("scenario", ".xlsx", "csv", ScenarioSheet)}

Files == GoodFiles \cup BadFiles

\* -------------------------------------------------------------- the script
VARIABLES
    session_df,      \* st.session_state.df: None or a DataFrame
    uploaded_file,   \* what st.file_uploader returns: None or a file
    selected_col,    \* value of the column selectbox in the last run
    selected_cmp,    \* value of the scatter / box-plot selectbox in the last run
    sidebar,         \* what the last run wrote to the sidebar
    main,            \* what the last run wrote to the main panel
    event            \* the interaction that triggered the last run

vars == <<session_df, uploaded_file, selected_col, selected_cmp, sidebar, main, event>>

Range(s) == {s[i] : i \in 1..Len(s)}

\* st.selectbox: the user's choice when it is one of the options, else the
\* first option, else None
selectbox(options, requested) ==
    IF options = <<>> THEN NoSelection
    ELSE IF requested \in Range(options) THEN requested
    ELSE options[1]

Selectbox(key, options, value) ==
    [kind |-> "selectbox", key |-> key, options |-> options, value |-> value]

Message(kind, text) == [kind |-> kind, text |-> text]

Figure(chart, x, y, order) == [chart |-> chart, x |-> x, y |-> y, order |-> order]

Pyplot(fig) == [kind |-> "pyplot", fig |-> fig]

\* fig.savefig(buf, format="png") and st.download_button(..., mime="image/png")
create_download_button(fig, file_name) ==
    [kind      |-> "download_button",
     data      |-> [format |-> "png", fig |-> fig],
     file_name |-> file_name,
     mime      |-> "image/png"]

SidebarUploadKeepFirst(df, file) ==
    IF file = None THEN [df |-> df, out |-> <<>>]
    ELSE LET r == LoadFile(file)
         IN  IF r.raised THEN [df |-> df, out |-> <<Message("error", "load_failed")>>]
             ELSE [df |-> IF df = None THEN r.df ELSE df,
                   out |-> <<Message("success", "loaded")>>]

\* the sidebar: the try/except around the loaders
SidebarUpload(df, file) ==
    IF file = None THEN [df |-> df, out |-> <<>>]
    ELSE LET r == LoadFile(file)
         IN  IF r.raised THEN [df |-> df, out |-> <<Message("error", "load_failed")>>]
             ELSE [df |-> r.df, out |-> <<Message("success", "loaded")>>]

\* the overview expander: preview, shape, null counts
Overview(df) ==
    << [kind |-> "dataframe", what |-> "head", rows |-> Min(5, df.nrows)],
       Message("markdown", "rows"), Message("markdown", "columns"),
       [kind |-> "dataframe", what |-> "isnull",
        rows |-> [i \in 1..Len(df.cols) |->
                     <<df.cols[i].name, Count(df.cols[i].values, NaN)>>]],
       [kind |-> "dataframe", what |-> "describe", rows |-> Len(df.cols)] >>

DistributionFileName(selected) == "distribution_" \o selected \o ".png"

CountplotFileName(selected) == "countplot_" \o selected \o ".png"

ScatterFileNameSwapped(selected, other) ==
    "scatter_" \o other \o "_vs_" \o selected \o ".png"

ScatterFileName(selected, other) ==
    "scatter_" \o selected \o "_vs_" \o other \o ".png"

BoxplotFileName(selected, numeric) ==
    "boxplot_" \o selected \o "_vs_" \o numeric \o ".png"

AllNumericCols(numeric_cols, selected) == numeric_cols

\* [col for col in numeric_cols if col != selected_col]
other_numeric_cols(numeric_cols, selected) ==
    SelectSeq(numeric_cols, LAMBDA c : c # selected)

ScatterExpanderSilent(df, selected, requested) ==
    LET others == other_numeric_cols(select_dtypes_number(df), selected)
        other  == selectbox(others, requested)
        fig    == Figure("scatter", selected, other, <<>>)
    IN  IF others # <<>>
        THEN [value |-> other,
              out   |-> <<Selectbox("scatter", others, other)>>
                        \o (IF other # NoSelection
                            THEN <<Pyplot(fig),
                                   create_download_button(fig, ScatterFileName(selected, other))>>
                            ELSE <<>>)]
        ELSE [value |-> NoSelection, out |-> <<>>]

\* the scatter expander of the numeric branch
ScatterExpander(df, selected, requested) ==
    LET others == other_numeric_cols(select_dtypes_number(df), selected)
        other  == selectbox(others, requested)
        fig    == Figure("scatter", selected, other, <<>>)
    IN  IF others # <<>>
        THEN [value |-> other,
              out   |-> <<Selectbox("scatter", others, other)>>
                        \o (IF other # NoSelection
                            THEN <<Pyplot(fig),
                                   create_download_button(fig, ScatterFileName(selected, other))>>
                            ELSE <<>>)]
        ELSE [value |-> NoSelection,
              out   |-> <<Message("info", "no_other_numeric_column")>>]

\* the numeric branch: histogram and box plot side by side, then the scatter
NumericBranch(df, selected, requested) ==
    LET fig == Figure("distribution", selected, NoSelection, <<>>)
        sc  == ScatterExpander(df, selected, requested)
    IN  [value |-> sc.value,
         out   |-> <<Message("subheader", "distribution"),
                     Pyplot(fig),
                     create_download_button(fig, DistributionFileName(selected))>>
                   \o sc.out]

AtLeastLimit(unique_count) == unique_count >= CardinalityLimit

\* if unique_count > 30
TooManyCategories(unique_count) == unique_count > CardinalityLimit

\* sns.countplot(y=..., order=...): one bar per entry of order, as long as
\* the number of rows holding that value
CountBars(values, order) ==
    [i \in 1..Len(order) |-> <<order[i], Count(values, order[i])>>]

\* value_counts().index
Index(vc) == [i \in 1..Len(vc) |-> vc[i][1]]

BoxExpanderNoGuard(df, selected, unique_count, requested) ==
    LET numeric_cols == select_dtypes_number(df)
        numeric      == selectbox(numeric_cols, requested)
        fig          == Figure("boxplot", numeric, selected, <<>>)
    IN  IF numeric_cols = <<>>
        THEN [value |-> NoSelection, out |-> <<Message("info", "no_numeric_column")>>]
        ELSE [value |-> numeric,
              out   |-> <<Selectbox("box", numeric_cols, numeric)>>
                        \o (IF numeric # NoSelection
                            THEN <<Pyplot(fig),
                                   create_download_button(fig, BoxplotFileName(selected, numeric))>>
                            ELSE <<>>)]

\* the box-plot expander of the categorical branch
BoxExpander(df, selected, unique_count, requested) ==
    LET numeric_cols == select_dtypes_number(df)
        numeric      == selectbox(numeric_cols, requested)
        fig          == Figure("boxplot", numeric, selected, <<>>)
    IN  IF numeric_cols = <<>>
        THEN [value |-> NoSelection, out |-> <<Message("info", "no_numeric_column")>>]
        ELSE IF TooManyCategories(unique_count)
        THEN [value |-> NoSelection, out |-> <<Message("warning", "too_many_for_boxplot")>>]
        ELSE [value |-> numeric,
              out   |-> <<Selectbox("box", numeric_cols, numeric)>>
                        \o (IF numeric # NoSelection
                            THEN <<Pyplot(fig),
                                   create_download_button(fig, BoxplotFileName(selected, numeric))>>
                            ELSE <<>>)]

\* the else branch: every column that fails the numeric-type test
CategoricalBranch(df, selected, requested) ==
    LET values       == ColumnOf(df, selected).values
        unique_count == nunique(values)
        fig          == Figure("countplot", NoSelection, selected,
                               CountBars(values, Index(value_counts(values))))
        box          == BoxExpander(df, selected, unique_count, requested)
    IN  [value |-> box.value,
         out   |-> <<Message("subheader", "category_counts"),
                     [kind |-> "write", what |-> "unique_count", n |-> unique_count]>>
                   \o (IF TooManyCategories(unique_count)
                       THEN <<Message("warning", "too_many_categories"),
                              Message("write", "top_categories"),
                              [kind |-> "dataframe", what |-> "top",
                               rows |-> nlargest(value_counts(values), TopK)]>>
                       ELSE <<Pyplot(fig),
                              create_download_button(fig, CountplotFileName(selected))>>)
                   \o box.out]

\* the main panel: overview and column analysis, or the upload prompt
MainPanel(df, col, cmp) ==
    IF df = None
    THEN [selected_col |-> NoSelection, selected_cmp |-> NoSelection,
          out |-> <<Message("info", "upload_prompt")>>]
    ELSE LET selected == selectbox(Columns(df), col)
             branch   == IF selected = NoSelection
                         THEN [value |-> NoSelection, out |-> <<>>]
                         ELSE IF is_numeric_dtype(ColumnOf(df, selected))
                         THEN NumericBranch(df, selected, cmp)
                         ELSE CategoricalBranch(df, selected, cmp)
         IN  [selected_col |-> selected, selected_cmp |-> branch.value,
              out |-> Overview(df) \o <<Selectbox("column", Columns(df), selected)>>
                      \o (IF selected # NoSelection
                          THEN <<Message("markdown", "analysis_of")>> \o branch.out
                          ELSE <<>>)]

\* one run of the script, top to bottom
Rerun(file, col, cmp, ev) ==
    LET up    == SidebarUpload(session_df, file)
        panel == MainPanel(up.df, col, cmp)
    IN  /\ session_df' = up.df
        /\ uploaded_file' = file
        /\ sidebar' = up.out
        /\ selected_col' = panel.selected_col
        /\ selected_cmp' = panel.selected_cmp
        /\ main' = panel.out
        /\ event' = ev

\* the options of the selectbox with this key on the page now shown
WidgetOptions(key) ==
    LET at == {i \in 1..Len(main) : main[i].kind = "selectbox" /\ main[i].key = key}
    IN  IF at = {} THEN {} ELSE Range(main[CHOOSE i \in at : TRUE].options)

Init ==
    /\ session_df = None
    /\ uploaded_file = None
    /\ sidebar = <<>>
    /\ selected_col = NoSelection
    /\ selected_cmp = NoSelection
    /\ main = MainPanel(None, NoSelection, NoSelection).out
    /\ event = "start"

\* the user puts a file into the uploader
Upload ==
    \E f \in Files : Rerun(f, selected_col, selected_cmp, "upload")

\* the user removes the file from the uploader
RemoveFile ==
    /\ uploaded_file # None
    /\ Rerun(None, selected_col, selected_cmp, "remove")

\* the user picks another column to analyse
SelectColumn ==
    \E c \in WidgetOptions("column") \ {selected_col} :
        Rerun(uploaded_file, c, selected_cmp, "select_column")

\* the user picks another comparison column in the expander
SelectComparison ==
    \E c \in (WidgetOptions("scatter") \cup WidgetOptions("box")) \ {selected_cmp} :
        Rerun(uploaded_file, selected_col, c, "select_comparison")

Next == Upload \/ RemoveFile \/ SelectColumn \/ SelectComparison

Spec == Init /\ [][Next]_vars

\* ------------------------------------------------------------- properties
Analysing == session_df # None /\ selected_col # NoSelection

Selected == ColumnOf(session_df, selected_col)

NumericDtypes == {"int64", "float64"}

Categories(values) == {values[i] : i \in 1..Len(values)} \ {NaN}

NonNull(values) == Cardinality({i \in 1..Len(values) : values[i] # NaN})

Charts == {i \in 1..Len(main) : main[i].kind = "pyplot"}

Downloads == {i \in 1..Len(main) : main[i].kind = "download_button"}

ChartsOf(chart) == {i \in Charts : main[i].fig.chart = chart}

DownloadsOf(chart) == {i \in Downloads : main[i].data.fig.chart = chart}

Shows(kind, text) ==
    \E i \in 1..Len(main) : main[i].kind = kind /\ main[i].text = text

SidebarShows(kind) == \E i \in 1..Len(sidebar) : sidebar[i].kind = kind

TopTables ==
    {i \in 1..Len(main) : main[i].kind = "dataframe" /\ main[i].what = "top"}

Descending(rows) ==
    \A i, j \in 1..Len(rows) : i < j => rows[i][2] >= rows[j][2]

RECURSIVE SumCounts(_)
SumCounts(rows) ==
    IF rows = <<>> THEN 0 ELSE rows[1][2] + SumCounts(Tail(rows))

\* rows lists distinct categories of values, each with its true count
TrueCounts(rows, values) ==
    /\ \A i \in 1..Len(rows) :
          /\ rows[i][1] \in Categories(values)
          /\ rows[i][2] = Count(values, rows[i][1])
    /\ \A i, j \in 1..Len(rows) : i # j => rows[i][1] # rows[j][1]

\* C1: after an upload whose parsing raises, an error message is shown and
\* the session Table is unset, so that only the upload prompt is rendered,
\* whatever uploads came before.
C1_FailedUploadLeavesTableUnset ==
    (event = "upload" /\ uploaded_file \in BadFiles)
        => /\ SidebarShows("error")
           /\ session_df = None
           /\ main = <<Message("info", "upload_prompt")>>

\* C2: the session Table is unset at session start and becomes set only by a
\* successful upload; after every successful upload it is exactly the table
\* parsed from that upload; re-runs triggered by a column or comparison
\* selection leave it unchanged.
C2_TableLifecycle ==
    /\ session_df = None
    /\ [][/\ (session_df = None /\ session_df' # None)
                 => (event' = "upload" /\ uploaded_file' \in GoodFiles)
          /\ (event' = "upload" /\ uploaded_file' \in GoodFiles)
                 => session_df' = LoadFile(uploaded_file').df
          /\ event' \in {"select_column", "select_comparison"}
                 => session_df' = session_df]_vars

\* a column selection re-run while a successfully loaded table is held
C2_Witness ==
    /\ event = "select_column"
    /\ uploaded_file \in GoodFiles
    /\ session_df = LoadFile(uploaded_file).df
    /\ session_df.nrows > CardinalityLimit

\* C3: for a selected non-numeric column with more than 30 distinct values a
\* warning is reported and the frequency list shown has exactly 30 entries,
\* sorted by count descending, which are the 30 most frequent categories.
C3_TruncatedTopList ==
    (Analysing /\ ~is_numeric_dtype(Selected)
               /\ Cardinality(Categories(Selected.values)) > 30)
        => /\ Shows("warning", "too_many_categories")
           /\ Cardinality(TopTables) = 1
           /\ \A t \in TopTables :
                 LET rows == main[t].rows
                     kept == {rows[i][1] : i \in 1..Len(rows)}
                 IN  /\ Len(rows) = 30
                     /\ Descending(rows)
                     /\ TrueCounts(rows, Selected.values)
                     /\ \A c \in Categories(Selected.values) \ kept :
                           \A i \in 1..Len(rows) :
                               Count(Selected.values, c) <= rows[i][2]

C3_Witness ==
    /\ Analysing
    /\ ~is_numeric_dtype(Selected)
    /\ Cardinality(Categories(Selected.values)) > 31
    /\ \E t \in TopTables : main[t].rows[1][2] > main[t].rows[30][2]

\* C4: for a selected non-numeric column with at most 30 distinct values the
\* count chart's frequency list has one entry per distinct non-null value,
\* ordered by count descending, its counts sum to the non-null row count,
\* and no truncation warning is issued; exactly 30 distinct values take this
\* path.
C4_UntruncatedCounts ==
    (Analysing /\ ~is_numeric_dtype(Selected)
               /\ Cardinality(Categories(Selected.values)) <= 30)
        => /\ ~Shows("warning", "too_many_categories")
           /\ TopTables = {}
           /\ Cardinality(ChartsOf("countplot")) = 1
           /\ \A c \in ChartsOf("countplot") :
                 LET bars == main[c].fig.order
                 IN  /\ Len(bars) = Cardinality(Categories(Selected.values))
                     /\ TrueCounts(bars, Selected.values)
                     /\ Descending(bars)
                     /\ SumCounts(bars) = NonNull(Selected.values)
                     /\ Selected.values = <<1, 2, 1>>
                           => bars = << <<1, 2>>, <<2, 1>> >>

C4_Witness ==
    /\ Analysing
    /\ ~is_numeric_dtype(Selected)
    /\ Cardinality(Categories(Selected.values)) = 30
    /\ NonNull(Selected.values) < Len(Selected.values)
    /\ \E c \in ChartsOf("countplot") : Len(main[c].fig.order) = 30

NumericNames(df) ==
    {df.cols[i].name : i \in {j \in 1..Len(df.cols) : df.cols[j].dtype \in NumericDtypes}}

\* C5: when the cross-analysis lacks the column it needs (a numeric column
\* selected and no other numeric column; a non-numeric column selected and
\* no numeric column at all), an informational message is shown and neither
\* the chart nor its download button is produced.
C5_MissingComparisonReported ==
    Analysing =>
        /\ (is_numeric_dtype(Selected) /\ NumericNames(session_df) \ {selected_col} = {})
              => /\ Shows("info", "no_other_numeric_column")
                 /\ ChartsOf("scatter") = {}
                 /\ DownloadsOf("scatter") = {}
        /\ (~is_numeric_dtype(Selected) /\ NumericNames(session_df) = {})
              => /\ Shows("info", "no_numeric_column")
                 /\ ChartsOf("boxplot") = {}
                 /\ DownloadsOf("boxplot") = {}

C5_Witness ==
    /\ Analysing
    /\ is_numeric_dtype(Selected)
    /\ NumericNames(session_df) \ {selected_col} = {}
    /\ Shows("info", "no_other_numeric_column")

C7_EmptyTableRefused ==
    (Analysing /\ session_df.nrows = 0)
        => Charts = {} /\ Downloads = {}

\* C8: every download is PNG-encoded and named
\* {chart_kind}_{selected}[_vs_{comparison}].png, the suffix being present
\* exactly when the chart involves the comparison column.
C8_DownloadNames ==
    \A d \in Downloads :
        LET fig == main[d].data.fig
            two == fig.x # NoSelection /\ fig.y # NoSelection
        IN  /\ main[d].mime = "image/png"
            /\ main[d].data.format = "png"
            /\ fig.chart \in {"distribution", "countplot", "scatter", "boxplot"}
            /\ two <=> fig.chart \in {"scatter", "boxplot"}
            /\ two => {fig.x, fig.y} = {selected_col, selected_cmp}
            /\ ~two => selected_col \in {fig.x, fig.y}
            /\ main[d].file_name =
                   fig.chart \o "_" \o selected_col
                   \o (IF two THEN "_vs_" \o selected_cmp ELSE "") \o ".png"

C8_Witness ==
    /\ DownloadsOf("scatter") # {}
    /\ DownloadsOf("distribution") # {}
    /\ selected_cmp # NoSelection

\* C9: the comparison column offered and used for a two-column chart is
\* never the selected column and is always a numeric column of the session
\* Table.
C9_ComparisonColumn ==
    /\ \A i \in 1..Len(main) :
          (main[i].kind = "selectbox" /\ main[i].key \in {"scatter", "box"})
              => /\ Range(main[i].options) \subseteq NumericNames(session_df) \ {selected_col}
                 /\ main[i].value = selected_cmp
    /\ \A c \in ChartsOf("scatter") \cup ChartsOf("boxplot") :
          /\ {main[c].fig.x, main[c].fig.y} = {selected_col, selected_cmp}
          /\ selected_cmp # selected_col
          /\ selected_cmp \in NumericNames(session_df)

C9_Witness ==
    /\ Analysing
    /\ is_numeric_dtype(Selected)
    /\ selected_col \in NumericNames(session_df)
    /\ ChartsOf("scatter") # {}

\* C10: a download button is offered exactly for each chart rendered in the
\* run, one per chart, and a run renders at most two charts; with the Table
\* unset only the upload prompt is rendered; for a non-numeric column with
\* more than 30 distinct values no chart and no download button is produced.
C10_ButtonsMatchCharts ==
    /\ \A c \in Charts :
          /\ c + 1 \in Downloads
          /\ main[c + 1].data.fig = main[c].fig
    /\ \A d \in Downloads :
          /\ d - 1 \in Charts
    /\ Cardinality(Charts) <= 2
    /\ session_df = None => main = <<Message("info", "upload_prompt")>>
    /\ (Analysing /\ ~is_numeric_dtype(Selected)
                  /\ Cardinality(Categories(Selected.values)) > 30)
          => Charts = {} /\ Downloads = {}

C10_Witness ==
    /\ Analysing
    /\ ~is_numeric_dtype(Selected)
    /\ Cardinality(Categories(Selected.values)) > 30
    /\ NumericNames(session_df) # {}
    /\ Shows("warning", "too_many_for_boxplot")
====
